---- MODULE Spec2Model ----
(***************************************************************************)
(* Hospital registry router (backend/app/routers/hospitals.py): an         *)
(* in-memory list HOSPITALS_DB and three request handlers, create_hospital *)
(* (POST /hospitals), get_hospitals (GET /hospitals) and get_hospital      *)
(* (GET /hospitals/{hospital_id}).                                         *)
(***************************************************************************)
EXTENDS Integers, Sequences, FiniteSets, TLC

VARIABLES
    HOSPITALS_DB,   \* the module-level list of hospital dicts
    last,           \* the last completed call: its operation, argument, response
    memo,           \* SpecRepeat: a remembered read call and the response it got
    tasks,          \* SpecAsync: the coroutines in flight, by task number
    current         \* SpecAsync: the task the event loop is running, 0 when idle

vars == <<HOSPITALS_DB, last, memo, tasks, current>>

----------------------------------------------------------------------------
(* Bounds of the model *)

MaxCreates == 2     \* successful creates per behaviour
MaxPage == 3        \* skip and limit range over -MaxPage .. MaxPage
MaxTasks == 3       \* requests in flight at once (SpecAsync)

(* Program constants *)

HTTP_200_OK == 200
HTTP_201_CREATED == 201
HTTP_400_BAD_REQUEST == 400
HTTP_404_NOT_FOUND == 404
DefaultSkip == 0
DefaultLimit == 100

Min(a, b) == IF a < b THEN a ELSE b
Max(a, b) == IF a > b THEN a ELSE b

----------------------------------------------------------------------------
(* Data *)

SeedHospitals ==
    << [id |-> 1, name |-> "City General Hospital", location |-> "Delhi",
        total_beds |-> 250, icu_beds |-> 50],
       [id |-> 2, name |-> "Metro Care Hospital", location |-> "Mumbai",
        total_beds |-> 180, icu_beds |-> 30] >>

Names == {"Sunrise Clinic"}
Locations == {"Pune"}
BedCounts == {20, 50}

\* The request body of POST /hospitals: the four client-supplied fields, no id.
HospitalCreate ==
    [name : Names, location : Locations, total_beds : BedCounts, icu_beds : BedCounts]

SkipValues == (-MaxPage) .. MaxPage
LimitValues == ((-MaxPage) .. MaxPage) \cup {DefaultLimit}
IdValues == (-1) .. (Len(SeedHospitals) + MaxCreates + 2)

----------------------------------------------------------------------------
(* Responses: status code, JSON body as a sequence of records (one record  *)
(* for create and get-by-id), and the error detail ("" when none).         *)

Response(status, body, detail) == [status |-> status, body |-> body, detail |-> detail]

IcuDetail == "ICU beds cannot exceed total beds"

\* f"Hospital with ID {hospital_id} not found"
NotFoundDetail(hospital_id) ==
    "Hospital with ID " \o ToString(hospital_id) \o " not found"

----------------------------------------------------------------------------
(* create_hospital *)

\* Mutant: the comparison with its operands swapped.
IcuExceedsTotal_Reversed(hospital) == hospital.total_beds > hospital.icu_beds

\* if hospital.icu_beds > hospital.total_beds
IcuExceedsTotal(hospital) == hospital.icu_beds > hospital.total_beds

\* new_hospital = hospital.model_dump()
model_dump(hospital) ==
    [name |-> hospital.name, location |-> hospital.location,
     total_beds |-> hospital.total_beds, icu_beds |-> hospital.icu_beds]

\* Mutant: the id is the length, without the + 1.
NewId_Len(db) == Len(db)

\* len(HOSPITALS_DB) + 1
NewId(db) == Len(db) + 1

\* new_hospital["id"] = ...
SetId(new_hospital, id) ==
    [k \in (DOMAIN new_hospital) \cup {"id"} |->
        IF k = "id" THEN id ELSE new_hospital[k]]

\* Mutant: the new record is inserted at the front of the list.
create_hospital_Prepend(hospital) ==
    IF IcuExceedsTotal(hospital)
    THEN [db |-> HOSPITALS_DB,
          response |-> Response(HTTP_400_BAD_REQUEST, <<>>, IcuDetail)]
    ELSE LET new_hospital == SetId(model_dump(hospital), NewId(HOSPITALS_DB))
         IN [db |-> <<new_hospital>> \o HOSPITALS_DB,
             response |-> Response(HTTP_201_CREATED, <<new_hospital>>, "")]

\* Mutant: the record is appended before the validation check.
create_hospital_AppendFirst(hospital) ==
    LET new_hospital == SetId(model_dump(hospital), NewId(HOSPITALS_DB))
    IN IF IcuExceedsTotal(hospital)
       THEN [db |-> Append(HOSPITALS_DB, new_hospital),
             response |-> Response(HTTP_400_BAD_REQUEST, <<>>, IcuDetail)]
       ELSE [db |-> Append(HOSPITALS_DB, new_hospital),
             response |-> Response(HTTP_201_CREATED, <<new_hospital>>, "")]

\* The whole handler: the list after the call and the response.
create_hospital(hospital) ==
    IF IcuExceedsTotal(hospital)
    THEN [db |-> HOSPITALS_DB,
          response |-> Response(HTTP_400_BAD_REQUEST, <<>>, IcuDetail)]
    ELSE LET new_hospital == SetId(model_dump(hospital), NewId(HOSPITALS_DB))
         IN [db |-> Append(HOSPITALS_DB, new_hospital),
             response |-> Response(HTTP_201_CREATED, <<new_hospital>>, "")]

----------------------------------------------------------------------------
(* get_hospitals *)

\* Mutant: a negative bound is clamped to 0 instead of counting from the end.
SliceBound_Clamp(i, n) == Min(Max(i, 0), n)

\* Python's normalisation of one slice bound against a list of length n.
SliceBound(i, n) == IF i < 0 THEN Max(i + n, 0) ELSE Min(i, n)

\* seq[start : stop]
Slice(seq, start, stop) ==
    LET lo == SliceBound(start, Len(seq))
        hi == SliceBound(stop, Len(seq))
    IN IF hi <= lo THEN <<>> ELSE SubSeq(seq, lo + 1, hi)

\* Mutant: the slice stops at limit instead of skip + limit.
get_hospitals_NoOffset(skip, limit) ==
    [db |-> HOSPITALS_DB,
     response |-> Response(HTTP_200_OK, Slice(HOSPITALS_DB, skip, limit), "")]

\* Mutant: the skipped records are deleted from the list (del HOSPITALS_DB[:skip]).
get_hospitals_Consume(skip, limit) ==
    LET rest == Slice(HOSPITALS_DB, skip, Len(HOSPITALS_DB))
    IN [db |-> rest,
        response |-> Response(HTTP_200_OK, Slice(rest, 0, limit), "")]

get_hospitals(skip, limit) ==
    [db |-> HOSPITALS_DB,
     response |-> Response(HTTP_200_OK, Slice(HOSPITALS_DB, skip, skip + limit), "")]

----------------------------------------------------------------------------
(* get_hospital *)

\* Mutant: the loop starts at the second record.
RECURSIVE Scan_SkipFirst(_, _, _)
Scan_SkipFirst(db, i, hospital_id) ==
    IF i + 1 > Len(db) THEN 0
    ELSE IF db[i + 1].id = hospital_id THEN i + 1
    ELSE Scan_SkipFirst(db, i + 1, hospital_id)

\* Mutant: the loop returns the first record whose id is at least hospital_id.
RECURSIVE Scan_AtLeast(_, _, _)
Scan_AtLeast(db, i, hospital_id) ==
    IF i > Len(db) THEN 0
    ELSE IF db[i].id >= hospital_id THEN i
    ELSE Scan_AtLeast(db, i + 1, hospital_id)

\* for hospital in HOSPITALS_DB: if hospital["id"] == hospital_id: return hospital
\* The position of the record returned, 0 when the loop ends without returning.
RECURSIVE Scan(_, _, _)
Scan(db, i, hospital_id) ==
    IF i > Len(db) THEN 0
    ELSE IF db[i].id = hospital_id THEN i
    ELSE Scan(db, i + 1, hospital_id)

get_hospital(hospital_id) ==
    LET i == Scan(HOSPITALS_DB, 1, hospital_id)
    IN [db |-> HOSPITALS_DB,
        response |->
            IF i # 0
            THEN Response(HTTP_200_OK, <<HOSPITALS_DB[i]>>, "")
            ELSE Response(HTTP_404_NOT_FOUND, <<>>, NotFoundDetail(hospital_id))]

----------------------------------------------------------------------------
(* Calls *)

Call(op, arg, response) == [op |-> op, arg |-> arg, response |-> response]
NoCall == Call("none", <<>>, Response(0, <<>>, ""))
NoMemo == Call("none", <<>>, Response(0, <<>>, ""))

\* A coroutine of the event loop: its position, its request, the handler's local
\* new_hospital and the response once it has returned or raised.
Task(pc, req, new_hospital, response) ==
    [pc |-> pc, req |-> req, new_hospital |-> new_hospital, response |-> response]
NoResponse == Response(0, <<>>, "")
FreeTask == Task("free", NoCall, <<>>, NoResponse)

Init ==
    /\ HOSPITALS_DB = SeedHospitals
    /\ last = NoCall
    /\ memo = NoMemo
    /\ tasks = [t \in 1 .. MaxTasks |-> FreeTask]
    /\ current = 0

\* POST /hospitals
CreateHospital(hospital) ==
    LET r == create_hospital(hospital)
    IN /\ Len(HOSPITALS_DB) < Len(SeedHospitals) + MaxCreates
            \/ r.response.status # HTTP_201_CREATED
       /\ HOSPITALS_DB' = r.db
       /\ last' = Call("create", hospital, r.response)
       /\ memo' = IF r.response.status = HTTP_201_CREATED THEN NoMemo ELSE memo
       /\ UNCHANGED <<tasks, current>>

\* GET /hospitals?skip=&limit=
GetHospitals(skip, limit) ==
    LET r == get_hospitals(skip, limit)
    IN /\ HOSPITALS_DB' = r.db
       /\ last' = Call("list", <<skip, limit>>, r.response)
       /\ UNCHANGED <<memo, tasks, current>>

\* GET /hospitals/{hospital_id}
GetHospital(hospital_id) ==
    LET r == get_hospital(hospital_id)
    IN /\ HOSPITALS_DB' = r.db
       /\ last' = Call("get", hospital_id, r.response)
       /\ UNCHANGED <<memo, tasks, current>>

Next ==
    \/ \E hospital \in HospitalCreate : CreateHospital(hospital)
    \/ \E skip \in SkipValues, limit \in LimitValues : GetHospitals(skip, limit)
    \/ \E hospital_id \in IdValues : GetHospital(hospital_id)

Spec == Init /\ [][Next]_vars

----------------------------------------------------------------------------
(* Repeated reads (SpecRepeat): one read call is remembered with its        *)
(* response; when the same call is made again, last records it. Other read  *)
(* calls are made but not recorded. A successful create forgets the memo.   *)

ReadCalls ==
    {Call("list", <<skip, limit>>, NoResponse) : skip \in SkipValues, limit \in LimitValues}
        \cup {Call("get", hospital_id, NoResponse) : hospital_id \in IdValues}

Handle(c) ==
    IF c.op = "list" THEN get_hospitals(c.arg[1], c.arg[2]) ELSE get_hospital(c.arg)

SameCall(c, d) == c.op = d.op /\ c.arg = d.arg

Remember(c) ==
    LET r == Handle(c)
    IN /\ memo = NoMemo
       /\ HOSPITALS_DB' = r.db
       /\ memo' = Call(c.op, c.arg, r.response)
       /\ last' = NoCall
       /\ UNCHANGED <<tasks, current>>

Repeat ==
    LET r == Handle(memo)
    IN /\ memo # NoMemo
       /\ HOSPITALS_DB' = r.db
       /\ last' = Call(memo.op, memo.arg, r.response)
       /\ UNCHANGED <<memo, tasks, current>>

Other(c) ==
    LET r == Handle(c)
    IN /\ ~SameCall(c, memo)
       /\ HOSPITALS_DB' = r.db
       /\ last' = Call("read", <<>>, NoResponse)
       /\ UNCHANGED <<memo, tasks, current>>

NextRepeat ==
    \/ \E hospital \in HospitalCreate : CreateHospital(hospital)
    \/ \E c \in ReadCalls : Remember(c)
    \/ Repeat
    \/ \E c \in ReadCalls : Other(c)

SpecRepeat == Init /\ [][NextRepeat]_vars

----------------------------------------------------------------------------
(* Requests in flight (SpecAsync): each request is a coroutine on one event *)
(* loop. The loop starts a ready coroutine when it is idle and runs it      *)
(* statement by statement; it takes control back only where the coroutine   *)
(* awaits or ends.                                                          *)

\* Mutant: an await between the id assignment and the append.
AwaitPoints_BeforeAppend == {"append"}

\* The statements of the handlers at which the coroutine awaits: none.
AwaitPoints == {}

AsyncIds == Len(SeedHospitals) .. (Len(SeedHospitals) + MaxTasks)

AsyncRequests ==
    {Call("create", hospital, NoResponse) : hospital \in HospitalCreate}
        \cup {Call("list", <<DefaultSkip, DefaultLimit>>, NoResponse)}
        \cup {Call("get", hospital_id, NoResponse) : hospital_id \in AsyncIds}

FirstStatement(req) ==
    IF req.op = "create" THEN "validate" ELSE IF req.op = "list" THEN "slice" ELSE "scan"

\* Who runs after task t has moved to pc: t itself, unless it awaits or has ended.
Yield(t, pc) == IF pc \in AwaitPoints \/ pc = "done" THEN 0 ELSE t

\* Task t may execute its next statement: it holds the loop, or the loop is idle
\* and t is suspended at an await.
Runnable(t) ==
    \/ current = t
    \/ current = 0 /\ tasks[t].pc \in AwaitPoints

Move(t, pc, new_hospital, response) ==
    /\ tasks' = [tasks EXCEPT ![t] = Task(pc, tasks[t].req, new_hospital, response)]
    /\ current' = Yield(t, pc)

\* A request arrives and its coroutine is scheduled.
Submit(t, req) ==
    /\ tasks[t].pc = "free"
    /\ tasks' = [tasks EXCEPT ![t] = Task("ready", req, <<>>, NoResponse)]
    /\ UNCHANGED <<HOSPITALS_DB, last, memo, current>>

\* The idle loop starts a ready coroutine.
Start(t) ==
    /\ current = 0
    /\ tasks[t].pc = "ready"
    /\ Move(t, FirstStatement(tasks[t].req), <<>>, NoResponse)
    /\ UNCHANGED <<HOSPITALS_DB, last, memo>>

\* if hospital.icu_beds > hospital.total_beds: raise HTTPException(400, ...)
CreateValidate(t) ==
    /\ Runnable(t)
    /\ tasks[t].pc = "validate"
    /\ IF IcuExceedsTotal(tasks[t].req.arg)
       THEN Move(t, "done", <<>>, Response(HTTP_400_BAD_REQUEST, <<>>, IcuDetail))
       ELSE Move(t, "dump", <<>>, NoResponse)
    /\ UNCHANGED <<HOSPITALS_DB, last, memo>>

\* new_hospital = hospital.model_dump()
CreateDump(t) ==
    /\ Runnable(t)
    /\ tasks[t].pc = "dump"
    /\ Move(t, "set_id", model_dump(tasks[t].req.arg), NoResponse)
    /\ UNCHANGED <<HOSPITALS_DB, last, memo>>

\* new_hospital["id"] = len(HOSPITALS_DB) + 1
CreateSetId(t) ==
    /\ Runnable(t)
    /\ tasks[t].pc = "set_id"
    /\ Move(t, "append", SetId(tasks[t].new_hospital, NewId(HOSPITALS_DB)), NoResponse)
    /\ UNCHANGED <<HOSPITALS_DB, last, memo>>

\* HOSPITALS_DB.append(new_hospital)
CreateAppend(t) ==
    /\ Runnable(t)
    /\ tasks[t].pc = "append"
    /\ HOSPITALS_DB' = Append(HOSPITALS_DB, tasks[t].new_hospital)
    /\ Move(t, "return", tasks[t].new_hospital, NoResponse)
    /\ UNCHANGED <<last, memo>>

\* return new_hospital
CreateReturn(t) ==
    /\ Runnable(t)
    /\ tasks[t].pc = "return"
    /\ Move(t, "done", tasks[t].new_hospital,
            Response(HTTP_201_CREATED, <<tasks[t].new_hospital>>, ""))
    /\ UNCHANGED <<HOSPITALS_DB, last, memo>>

\* return HOSPITALS_DB[skip : skip + limit]
ListSlice(t) ==
    LET r == get_hospitals(tasks[t].req.arg[1], tasks[t].req.arg[2])
    IN /\ Runnable(t)
       /\ tasks[t].pc = "slice"
       /\ HOSPITALS_DB' = r.db
       /\ Move(t, "done", <<>>, r.response)
       /\ UNCHANGED <<last, memo>>

\* the for loop of get_hospital, to its return or to the raise after it
GetScan(t) ==
    LET r == get_hospital(tasks[t].req.arg)
    IN /\ Runnable(t)
       /\ tasks[t].pc = "scan"
       /\ HOSPITALS_DB' = r.db
       /\ Move(t, "done", <<>>, r.response)
       /\ UNCHANGED <<last, memo>>

NextAsync ==
    \/ \E t \in 1 .. MaxTasks, req \in AsyncRequests : Submit(t, req)
    \/ \E t \in 1 .. MaxTasks : Start(t)
    \/ \E t \in 1 .. MaxTasks : CreateValidate(t)
    \/ \E t \in 1 .. MaxTasks : CreateDump(t)
    \/ \E t \in 1 .. MaxTasks : CreateSetId(t)
    \/ \E t \in 1 .. MaxTasks : CreateAppend(t)
    \/ \E t \in 1 .. MaxTasks : CreateReturn(t)
    \/ \E t \in 1 .. MaxTasks : ListSlice(t)
    \/ \E t \in 1 .. MaxTasks : GetScan(t)

SpecAsync == Init /\ [][NextAsync]_vars

----------------------------------------------------------------------------
(* Properties of the sequential service (Spec) *)

IsCreate(c) == c.op = "create"
IsList(c) == c.op = "list"
IsGet(c) == c.op = "get"
Holds(db, hospital_id) == \E i \in 1 .. Len(db) : db[i].id = hospital_id

\* C1: a create call whose input has icu_beds <= total_beds succeeds (201), returns
\* the input's four fields with id = pre-call length + 1, grows the collection by
\* exactly one, the returned record is the new last element, and every earlier
\* record stays unchanged at its position.
C1_CreateAppends ==
    [][ (IsCreate(last') /\ last'.arg.icu_beds <= last'.arg.total_beds) =>
            LET h == last'.arg
                r == last'.response
                n == Len(HOSPITALS_DB)
            IN /\ r.status = 201
               /\ Len(r.body) = 1
               /\ r.body[1].id = n + 1
               /\ r.body[1].name = h.name
               /\ r.body[1].location = h.location
               /\ r.body[1].total_beds = h.total_beds
               /\ r.body[1].icu_beds = h.icu_beds
               /\ Len(HOSPITALS_DB') = n + 1
               /\ HOSPITALS_DB'[n + 1] = r.body[1]
               /\ \A i \in 1 .. n : HOSPITALS_DB'[i] = HOSPITALS_DB[i] ]_vars

C1_Witness ==
    /\ IsCreate(last)
    /\ last.response.status = 201
    /\ last.arg.icu_beds < last.arg.total_beds
    /\ Len(HOSPITALS_DB) = 4

\* C2: a create call whose input has icu_beds > total_beds fails with HTTP 400 and
\* the detail 'ICU beds cannot exceed total beds', and leaves the collection
\* identical (same length, records and order).
C2_CreateRejects ==
    [][ (IsCreate(last') /\ last'.arg.icu_beds > last'.arg.total_beds) =>
            /\ last'.response.status = 400
            /\ last'.response.detail = "ICU beds cannot exceed total beds"
            /\ last'.response.body = <<>>
            /\ HOSPITALS_DB' = HOSPITALS_DB ]_vars

C2_Witness ==
    /\ IsCreate(last)
    /\ last.arg.icu_beds > last.arg.total_beds
    /\ last.response.status = 400
    /\ Len(HOSPITALS_DB) = 3

\* C3: every record of the collection has icu_beds <= total_beds.
C3_IcuWithinTotal ==
    \A i \in 1 .. Len(HOSPITALS_DB) :
        HOSPITALS_DB[i].icu_beds <= HOSPITALS_DB[i].total_beds

C3_Witness ==
    /\ Len(HOSPITALS_DB) = 4
    /\ HOSPITALS_DB[3].icu_beds = HOSPITALS_DB[3].total_beds
    /\ IsCreate(last)
    /\ last.response.status = 400

\* C4: the record at position i (from 1) has id i, so ids are positive, pairwise
\* distinct and strictly increasing in insertion order.
C4_IdsArePositions ==
    /\ \A i \in 1 .. Len(HOSPITALS_DB) :
            HOSPITALS_DB[i].id = i /\ HOSPITALS_DB[i].id > 0
    /\ \A i, j \in 1 .. Len(HOSPITALS_DB) :
            (i < j => HOSPITALS_DB[i].id < HOSPITALS_DB[j].id)
            /\ (i # j => HOSPITALS_DB[i].id # HOSPITALS_DB[j].id)

C4_Witness ==
    /\ Len(HOSPITALS_DB) = 4
    /\ IsCreate(last)
    /\ last.response.status = 201
    /\ last.response.body[1].id = 4

\* C5: getById of an id some record carries succeeds and returns that record, which
\* is the only one with the id and the first in insertion order; getById of the id
\* a successful create just returned gives back the record create returned.
C5_GetPresent ==
    /\ [] ( (IsGet(last) /\ Holds(HOSPITALS_DB, last.arg)) =>
                LET matches == {i \in 1 .. Len(HOSPITALS_DB) :
                                    HOSPITALS_DB[i].id = last.arg}
                    first == CHOOSE i \in matches : \A j \in matches : i <= j
                IN /\ last.response.status = 200
                   /\ last.response.body = <<HOSPITALS_DB[first]>>
                   /\ last.response.body[1].id = last.arg
                   /\ Cardinality(matches) = 1 )
    /\ [][ ( /\ IsCreate(last)
             /\ last.response.status = 201
             /\ IsGet(last')
             /\ last'.arg = last.response.body[1].id ) =>
                last'.response.body = last.response.body ]_vars

C5_Witness ==
    /\ IsGet(last)
    /\ last.arg = 4
    /\ last.response.status = 200
    /\ Len(HOSPITALS_DB) = 4

\* C6: getById of an integer no record carries (0, negative, beyond the length)
\* fails with HTTP 404 whose detail carries the requested id, and the collection
\* is unchanged.
C6_GetAbsent ==
    /\ [] ( (IsGet(last) /\ ~Holds(HOSPITALS_DB, last.arg)) =>
                /\ last.response.status = 404
                /\ last.response.body = <<>>
                /\ last.response.detail =
                        "Hospital with ID " \o ToString(last.arg) \o " not found" )
    /\ [][ (IsGet(last') /\ last'.response.status = 404) =>
                HOSPITALS_DB' = HOSPITALS_DB ]_vars

C6_Witness ==
    /\ IsGet(last)
    /\ last.arg <= 0
    /\ last.response.status = 404
    /\ Len(HOSPITALS_DB) = 3

\* C7: for skip >= 0 and limit >= 0, list(skip, limit) returns exactly the records
\* at 0-based positions skip .. min(skip+limit, length)-1 in insertion order, the
\* empty sequence when skip is at or beyond the length, and list(0, 100) on the
\* freshly seeded service returns the two seed records in order.
C7_ListNonNegative ==
    (IsList(last) /\ last.arg[1] >= 0 /\ last.arg[2] >= 0) =>
        LET skip == last.arg[1]
            limit == last.arg[2]
            n == Len(HOSPITALS_DB)
            stop == Min(skip + limit, n)
            body == last.response.body
        IN /\ last.response.status = 200
           /\ Len(body) = Max(stop - skip, 0)
           /\ \A k \in 1 .. Len(body) : body[k] = HOSPITALS_DB[skip + k]
           /\ (skip >= n => body = <<>>)
           /\ (skip = 0 /\ limit = 100 /\ n = 2 =>
                    /\ Len(body) = 2
                    /\ body[1].id = 1 /\ body[1].name = "City General Hospital"
                    /\ body[2].id = 2 /\ body[2].name = "Metro Care Hospital")

C7_Witness ==
    /\ IsList(last)
    /\ last.arg = <<1, 2>>
    /\ Len(HOSPITALS_DB) = 4
    /\ Len(last.response.body) = 2
    /\ last.response.body[1].id = 2

\* C8 as stated: for every integer skip and limit, list never fails and returns a
\* contiguous run that starts at offset skip and has at most limit records.
C8_Original ==
    IsList(last) =>
        LET skip == last.arg[1]
            limit == last.arg[2]
            body == last.response.body
        IN /\ last.response.status = 200
           /\ Len(body) <= limit
           /\ \A k \in 1 .. Len(body) :
                /\ skip + k \in 1 .. Len(HOSPITALS_DB)
                /\ body[k] = HOSPITALS_DB[skip + k]

\* C8 (amended): for every integer skip and limit, list never fails and returns a
\* contiguous run in insertion order that starts at offset skip when skip >= 0 and
\* at offset max(length + skip, 0) when skip < 0, and that has at most limit
\* records whenever limit >= 0.
C8_ListAnyIntegers ==
    IsList(last) =>
        LET skip == last.arg[1]
            limit == last.arg[2]
            n == Len(HOSPITALS_DB)
            start == IF skip >= 0 THEN skip ELSE Max(n + skip, 0)
            body == last.response.body
        IN /\ last.response.status = 200
           /\ Len(body) <= n
           /\ \A k \in 1 .. Len(body) :
                /\ start + k \in 1 .. n
                /\ body[k] = HOSPITALS_DB[start + k]
           /\ (limit >= 0 => Len(body) <= limit)

C8_Witness ==
    /\ IsList(last)
    /\ last.arg = <<-2, 1>>
    /\ Len(HOSPITALS_DB) = 3
    /\ Len(last.response.body) = 1
    /\ last.response.body[1].id = 2
----------------------------------------------------------------------------
(* Properties of repeated reads (SpecRepeat) *)

\* C9: list and getById never change the collection, nor does a failing create
\* (the collection changes only in a successful create); and a read call repeated
\* with the same arguments, with no successful create since it was first made and
\* any number of other reads and failing creates in between, gets the identical
\* response.
C9_ReadsRepeat ==
    /\ [] ( (memo # NoMemo /\ SameCall(last, memo)) => last.response = memo.response )
    /\ [][ HOSPITALS_DB' # HOSPITALS_DB =>
                /\ IsCreate(last')
                /\ last'.response.status = 201
                /\ memo' = NoMemo ]_vars

C9_Witness ==
    /\ memo.op = "list"
    /\ memo.arg = <<1, 100>>
    /\ SameCall(last, memo)
    /\ Len(last.response.body) = 2
    /\ Len(HOSPITALS_DB) = 3

----------------------------------------------------------------------------
(* Properties of requests in flight (SpecAsync) *)

InHandler(t) == tasks[t].pc \notin {"free", "ready", "done"}
Created(t) ==
    /\ tasks[t].pc = "done"
    /\ IsCreate(tasks[t].req)
    /\ tasks[t].response.status = 201
RecordFields == {"id", "name", "location", "total_beds", "icu_beds"}

\* C10: with several requests in flight, a handler once started runs to its end
\* before any other handler runs (at most one coroutine is inside a handler), no
\* two creates are given the same id, whenever the loop is idle the collection
\* length is 2 plus the number of creates that succeeded, and every record in the
\* collection or in a reader's response has its id and all four other fields.
C10_HandlersDoNotInterleave ==
    /\ \A t, u \in 1 .. MaxTasks : (InHandler(t) /\ InHandler(u)) => t = u
    /\ \A t \in 1 .. MaxTasks : InHandler(t) => current = t
    /\ \A t, u \in 1 .. MaxTasks :
            (Created(t) /\ Created(u) /\ t # u) =>
                tasks[t].response.body[1].id # tasks[u].response.body[1].id
    /\ \A i, j \in 1 .. Len(HOSPITALS_DB) :
            i # j => HOSPITALS_DB[i].id # HOSPITALS_DB[j].id
    /\ current = 0 =>
            Len(HOSPITALS_DB) = 2 + Cardinality({t \in 1 .. MaxTasks : Created(t)})
    /\ \A i \in 1 .. Len(HOSPITALS_DB) : RecordFields \subseteq DOMAIN HOSPITALS_DB[i]
    /\ \A t \in 1 .. MaxTasks :
            \A k \in 1 .. Len(tasks[t].response.body) :
                RecordFields \subseteq DOMAIN tasks[t].response.body[k]

C10_Witness ==
    /\ Created(2)
    /\ tasks[2].response.body[1].id = 3
    /\ tasks[1].pc = "return"
    /\ tasks[1].new_hospital.id = 4
    /\ Len(HOSPITALS_DB) = 4
    /\ tasks[3].pc = "ready"
    /\ IsList(tasks[3].req)

====
